---- MODULE Spec2Model ----
(***************************************************************************)
(* Model of allianz/versions.ipynb: the EWMA covariance of the yield       *)
(* differences, the dominant eigenpair, the 1-in-200 shock vectors, the    *)
(* stressed zero curves and the valuation of the fixed-rate bond portfolio *)
(* under the Base, Up and Down curves.                                     *)
(*                                                                         *)
(* Numbers.  The notebook computes in binary floating point.  A float is   *)
(* modelled as an integer count of a fixed unit, and every operation that  *)
(* rounds in the notebook rounds here, to the nearest unit with ties to    *)
(* even (RoundDiv), which is the IEEE default and is symmetric in the      *)
(* sign.  The units:                                                       *)
(*   weights, yield differences, covariance : 1 / One  (One = 2^FracBits)  *)
(*   zero rates and shocks                  : 1e-7     (RateOne per 1.0)   *)
(*   discount factors                       : 1e-6     (DfOne per 1.0)     *)
(*   coupon rates                           : 1/1200   (CouponOne per 1.0) *)
(*   eigenvalues 1e-10, eigenvector components 1/EOne, shock_mag 1e-6      *)
(*   money                                  : 2,500 currency units         *)
(*   present values                         : money unit * 1e-6            *)
(* The grid of the covariance cell is coarse on purpose: a power of λ      *)
(* rounds to 0 after a few rows here, as it does in float64 once it falls  *)
(* below the smallest subnormal.                                           *)
(* Dates are records [y, m, d] of the proleptic Gregorian calendar.        *)
(***************************************************************************)
EXTENDS Integers, Sequences, FiniteSets, TLC

VARIABLES
    pc,           \* position in the notebook
    lam,          \* λ, the EWMA decay
    rets,         \* df_diff.values, T rows of N yield differences
    weights,      \* the EWMA weights
    H_ewma,       \* the EWMA covariance
    vals, vecs,   \* what np.linalg.eigh returned
    idx, lam_max, e_max,
    shock_mag, delta_up, delta_down,
    shocks_ewma,  \* the packaged, rounded shock table
    base_rates, zc_base, zc_up, zc_down,
    today, bonds,
    flows,        \* what cashflows() returned for bonds[1] (bond cell only)
    pv_out,       \* what pv() returned for bonds[1] (bond cell only)
    results,      \* the rows appended by the scenario loop
    pv_df         \* the rounded table

vars == <<pc, lam, rets, weights, H_ewma, vals, vecs, idx, lam_max, e_max,
          shock_mag, delta_up, delta_down, shocks_ewma,
          base_rates, zc_base, zc_up, zc_down, today, bonds, flows,
          pv_out, results, pv_df>>

covVars   == <<lam, rets, weights, H_ewma>>
eigVars   == <<vals, vecs, idx, lam_max, e_max>>
shockVars == <<shock_mag, delta_up, delta_down, shocks_ewma>>
curveVars == <<base_rates, zc_base, zc_up, zc_down>>
bondVars  == <<today, bonds, flows, pv_out, results, pv_df>>

\* The value of a variable the notebook has not assigned yet.
None == [none |-> TRUE]

(***************************************************************************)
(* Arithmetic                                                              *)
(***************************************************************************)
Abs(x) == IF x < 0 THEN -x ELSE x

Min(a, b) == IF a <= b THEN a ELSE b

\* n/d rounded to the nearest integer, ties to even (d > 0)
RoundDiv(n, d) ==
    LET q == n \div d
        r == n % d
    IN  IF 2 * r < d THEN q
        ELSE IF 2 * r > d THEN q + 1
        ELSE IF q % 2 = 0 THEN q ELSE q + 1

RECURSIVE SumSeq(_)
SumSeq(s) == IF s = <<>> THEN 0 ELSE Head(s) + SumSeq(Tail(s))

RECURSIVE IPow(_, _)
IPow(b, k) == IF k = 0 THEN 1 ELSE b * IPow(b, k - 1)

RECURSIVE FloorSqrt(_, _, _)
FloorSqrt(n, lo, hi) ==
    IF lo >= hi THEN lo
    ELSE LET mid == (lo + hi + 1) \div 2
         IN  IF mid * mid <= n THEN FloorSqrt(n, mid, hi)
                               ELSE FloorSqrt(n, lo, mid - 1)

\* the integer nearest to the square root of n, 0 <= n < 2^30
ISqrt(n) ==
    LET f == FloorSqrt(n, 0, 32767)
    IN  IF n - f * f > f THEN f + 1 ELSE f

(***************************************************************************)
(* Calendar: pandas Timestamp, DateOffset(months=...) and the "ME" offset  *)
(***************************************************************************)
Date(y, m, d) == [y |-> y, m |-> m, d |-> d]

IsLeap(y) == (y % 4 = 0 /\ y % 100 # 0) \/ y % 400 = 0

DaysInMonth(y, m) ==
    IF m = 2 THEN (IF IsLeap(y) THEN 29 ELSE 28)
    ELSE IF m \in {4, 6, 9, 11} THEN 30 ELSE 31

RECURSIVE DaysBeforeMonth(_, _)
DaysBeforeMonth(y, m) ==
    IF m = 1 THEN 0 ELSE DaysBeforeMonth(y, m - 1) + DaysInMonth(y, m - 1)

\* the day number of a date (Timestamp.toordinal)
Ordinal(dt) ==
    LET p == dt.y - 1
    IN  p * 365 + (p \div 4) - (p \div 100) + (p \div 400)
          + DaysBeforeMonth(dt.y, dt.m) + dt.d

\* (a - b).days
DaysBetween(a, b) == Ordinal(a) - Ordinal(b)

\* dt + pd.DateOffset(months=k): the day of the month is kept, clipped to the
\* length of the target month
AddMonths(dt, k) ==
    LET t == dt.y * 12 + (dt.m - 1) + k
        y == t \div 12
        m == (t % 12) + 1
    IN  Date(y, m, Min(dt.d, DaysInMonth(y, m)))

\* dt + pd.DateOffset(years=k)
AddYears(dt, k) == AddMonths(dt, 12 * k)

\* MonthEnd.is_on_offset
IsMonthEnd(dt) == dt.d = DaysInMonth(dt.y, dt.m)

\* MonthEnd.rollforward: a date that is not a month end moves to the end of
\* its month
RollForward(dt) == Date(dt.y, dt.m, DaysInMonth(dt.y, dt.m))

\* MonthEnd(step) applied to a month end: the month end step months later
NextMonthEnd(dt, step) ==
    LET t == AddMonths(Date(dt.y, dt.m, 1), step)
    IN  Date(t.y, t.m, DaysInMonth(t.y, t.m))

RECURSIVE RangeFrom(_, _, _)
RangeFrom(cur, end, step) ==
    IF Ordinal(cur) > Ordinal(end) THEN <<>>
    ELSE <<cur>> \o RangeFrom(NextMonthEnd(cur, step), end, step)

\* pd.date_range(start, end, freq=f"{step}ME")
DateRangeME(start, end, step) ==
    RangeFrom(IF IsMonthEnd(start) THEN start ELSE RollForward(start), end, step)

(***************************************************************************)
(* Results of a call: a value, or the exception it raised                  *)
(***************************************************************************)
Ok(v) == [ok |-> TRUE, val |-> v]

Raise(e) == [ok |-> FALSE, val |-> e]

(***************************************************************************)
(* The zero curve (the collaborator the notebook takes "from earlier")     *)
(***************************************************************************)
\* units per 1.0 of a rate, of a discount factor, of a coupon rate
RateOne == 10 * 1000 * 1000

DfOne == 1000 * 1000

CouponOne == 12 * 100

\* the tenor grid 3M, 6M, 1Y, 3Y, 5Y, 10Y, 15Y, in quarters of a year
tenors == <<1, 2, 4, 12, 20, 40, 60>>

NTenors == Len(tenors)

ZeroCurve(tn, rates) == [tenors |-> tn, rates |-> rates]

\* the zero rate at a maturity of `days` days (year fraction days/365): linear
\* between the grid tenors, flat outside them
RateAt(curve, days) ==
    LET x    == 4 * days
        k(i) == 365 * curve.tenors[i]
        n    == Len(curve.tenors)
    IN  IF x <= k(1) THEN curve.rates[1]
        ELSE IF x >= k(n) THEN curve.rates[n]
        ELSE LET i == CHOOSE j \in 1..(n - 1) : k(j) <= x /\ x < k(j + 1)
             IN  curve.rates[i]
                   + RoundDiv((curve.rates[i + 1] - curve.rates[i]) * (x - k(i)),
                              k(i + 1) - k(i))

\* curve.discount_factor(days/365): 1 - rate * year fraction
DiscountFactor(curve, days) ==
    DfOne - RoundDiv(RateAt(curve, days) * days, 365 * (RateOne \div DfOne))

(***************************************************************************)
(* FixedRateBond                                                           *)
(***************************************************************************)
\* the default par, 1,000,000
DefaultPar == 400

FixedRateBond(issue, maturity, coupon, freq, par) ==
    [issue |-> issue, maturity |-> maturity, coupon |-> coupon,
     freq |-> freq, par |-> par]

\* int(12/self.freq)
Step(b) == 12 \div b.freq

\* self.par*self.coupon/self.freq
CouponAmount(b) == RoundDiv(b.par * b.coupon, CouponOne * b.freq)

\* FixedRateBond.cashflows: cfs[-1] raises IndexError on an empty list
Cashflows(b) ==
    LET dates == DateRangeME(AddMonths(b.issue, Step(b)), b.maturity, Step(b))
        n     == Len(dates)
    IN  IF n = 0 THEN Raise("IndexError")
        ELSE Ok([i \in 1..n |->
                   [date |-> dates[i],
                    amt  |-> IF i = n THEN CouponAmount(b) + b.par
                                      ELSE CouponAmount(b)]])

\* FixedRateBond.pv: every cash flow of cashflows() is discounted, whatever
\* its date is relative to the valuation date
Pv(b, curve, td) ==
    LET cf == Cashflows(b)
    IN  IF ~cf.ok THEN cf
        ELSE Ok(SumSeq([i \in 1..Len(cf.val) |->
                 cf.val[i].amt
                   * DiscountFactor(curve, DaysBetween(cf.val[i].date, td))]))

(***************************************************************************)
(* The bond cell on its own: one bond, one curve, one valuation date       *)
(***************************************************************************)
MaxPeriods == 4

IssueDates ==
    { Date(2024, 1, 15), Date(2024, 1, 31), Date(2024, 2, 29), Date(2023, 2, 28),
      Date(2024, 4, 30), Date(2023, 8, 31), Date(2024, 6, 1),  Date(2025, 11, 30) }

Freqs == {1, 2, 4}

Coupons == {24, 42}

Pars == {DefaultPar, 1000}

RateVectors ==
    { <<200000, 210000, 220000, 240000, 260000, 290000, 300000>>,
      <<-5003, -4001, -2507, 1004, 5008, 12003, 15009>>,
      <<312345, 305551, 298765, 281234, 275003, 278887, 283331>> }

\* the number of coupon periods between issue and maturity
Periods(b) ==
    CHOOSE n \in 1..(MaxPeriods + 1) : b.maturity = AddMonths(b.issue, n * Step(b))

InitBond ==
    /\ pc = "bond"
    /\ \E issue \in IssueDates, f \in Freqs, n \in 1..MaxPeriods,
          cp \in Coupons, par \in Pars :
          /\ bonds = <<FixedRateBond(issue, AddMonths(issue, n * (12 \div f)),
                                     cp, f, par)>>
          /\ today \in { issue,
                         AddMonths(issue, 12 \div f),
                         AddMonths(issue, n * (12 \div f)),
                         AddMonths(issue, n * (12 \div f) + 1) }
    /\ \E r \in RateVectors : zc_base = ZeroCurve(tenors, r)
    /\ base_rates = zc_base.rates
    /\ zc_up = None /\ zc_down = None
    /\ flows = None /\ pv_out = None /\ results = None /\ pv_df = None
    /\ lam = None /\ rets = None /\ weights = None /\ H_ewma = None
    /\ vals = None /\ vecs = None /\ idx = None /\ lam_max = None /\ e_max = None
    /\ shock_mag = None /\ delta_up = None /\ delta_down = None
    /\ shocks_ewma = None

\* bonds[1].cashflows()
CallCashflows ==
    /\ pc = "bond"
    /\ flows' = Cashflows(bonds[1])
    /\ pc' = "cashflows_done"
    /\ UNCHANGED <<covVars, eigVars, shockVars, curveVars, today, bonds,
                   pv_out, results, pv_df>>

\* bonds[1].pv(zc_base, today)
CallPv ==
    /\ pc = "cashflows_done"
    /\ pv_out' = Pv(bonds[1], zc_base, today)
    /\ pc' = "pv_done"
    /\ UNCHANGED <<covVars, eigVars, shockVars, curveVars, today, bonds,
                   flows, results, pv_df>>

NextBond == CallCashflows \/ CallPv

SpecBond == InitBond /\ [][NextBond]_vars

(***************************************************************************)
(* Claims about the bond cell                                              *)
(***************************************************************************)
\* C1: pv(curve, valuation_date) returns 0, and raises nothing, whenever the
\* valuation date is on or after the bond's maturity date.
C1_PvZeroAtOrAfterMaturity ==
    (pc = "pv_done" /\ Ordinal(today) >= Ordinal(bonds[1].maturity))
        => (pv_out.ok /\ pv_out.val = 0)

\* C2: a bond with maturity = issue + Y years and frequency f has exactly Y*f
\* cash flows, each par*coupon/f except the last, which is par*coupon/f + par.
C2_CashflowCountAndAmounts ==
    (pc = "cashflows_done" /\ Periods(bonds[1]) % bonds[1].freq = 0)
        => /\ flows.ok
           /\ Len(flows.val) = Periods(bonds[1])
           /\ \A i \in 1..Len(flows.val) :
                 flows.val[i].amt =
                    IF i = Len(flows.val)
                    THEN CouponAmount(bonds[1]) + bonds[1].par
                    ELSE CouponAmount(bonds[1])

\* C9: for a maturity n >= 1 coupon periods after issue, the payment dates are
\* exactly issue + k*step months for k = 1..n, the last being the maturity.
C9_PaymentDatesStepFromIssue ==
    pc = "cashflows_done"
        => /\ flows.ok
           /\ Len(flows.val) = Periods(bonds[1])
           /\ \A k \in 1..Len(flows.val) :
                 flows.val[k].date = AddMonths(bonds[1].issue, k * Step(bonds[1]))
           /\ flows.val[Len(flows.val)].date = bonds[1].maturity

(***************************************************************************)
(* The stressed curves and the scenario loop                               *)
(***************************************************************************)
\* the shock table of the notebook's first cell (EWMA Up, EWMA Down)
ShockTable ==
    [ewma_up   |-> <<-2650, -2130, -2980, -24400, -27630, -27550, -25970>>,
     ewma_down |-> <<2650, 2130, 2980, 24400, 27630, 27550, 25970>>]

\* the table a zero shock magnitude gives
ZeroShocks ==
    [ewma_up   |-> [i \in 1..NTenors |-> 0],
     ewma_down |-> [i \in 1..NTenors |-> 0]]

\* the table the opposite sign of the eigenvector gives
FlippedShockTable ==
    [ewma_up |-> ShockTable.ewma_down, ewma_down |-> ShockTable.ewma_up]

\* np.round(x, 6) of a rate: to the nearest 1e-6, ties to even
Round6(x) == 10 * RoundDiv(x, 10)

\* the sum rounded to six decimals instead of the sum
StressedRatesRounded(base, shock) ==
    [i \in 1..Len(base) |-> Round6(base[i] + shock[i])]

\* base_rates + shocks_ewma[...].values
StressedRates(base, shock) == [i \in 1..Len(base) |-> base[i] + shock[i]]

\* the base curve, built from the last row of df_dec
BaseCurve(rates) == ZeroCurve(tenors, rates)

Todays ==
    { Date(2025, 1, 15), Date(2024, 12, 31), Date(2024, 2, 29),
      Date(2025, 4, 30), Date(2025, 5, 30) }

Scenarios == <<"Base", "Up", "Down">>

\* the curve the loop pairs with a scenario name
CurveOf(name) ==
    IF name = "Base" THEN zc_base ELSE IF name = "Up" THEN zc_up ELSE zc_down

\* the bonds of the portfolio: 2, 5 and 10 years, semiannual, default par
Portfolio(td) ==
    << FixedRateBond(td, AddYears(td, 2), 24, 2, DefaultPar),
       FixedRateBond(td, AddYears(td, 5), 42, 2, DefaultPar),
       FixedRateBond(td, AddYears(td, 10), 36, 2, DefaultPar) >>

InitScenario ==
    /\ pc = "curves"
    /\ today \in Todays
    /\ base_rates \in RateVectors
    /\ zc_base = BaseCurve(base_rates)
    /\ shocks_ewma \in {ShockTable, ZeroShocks, FlippedShockTable}
    /\ zc_up = None /\ zc_down = None
    /\ bonds = None /\ flows = None /\ pv_out = None
    /\ results = <<>> /\ pv_df = None
    /\ lam = None /\ rets = None /\ weights = None /\ H_ewma = None
    /\ vals = None /\ vecs = None /\ idx = None /\ lam_max = None /\ e_max = None
    /\ shock_mag = None /\ delta_up = None /\ delta_down = None

\* 5.2: zc_up and zc_down from the packaged shock table
BuildCurves ==
    /\ pc = "curves"
    /\ zc_up' = ZeroCurve(tenors, StressedRates(base_rates, shocks_ewma.ewma_up))
    /\ zc_down' = ZeroCurve(tenors, StressedRates(base_rates, shocks_ewma.ewma_down))
    /\ pc' = "portfolio"
    /\ UNCHANGED <<covVars, eigVars, shockVars, base_rates, zc_base, bondVars>>

\* 5.4: the portfolio
DefinePortfolio ==
    /\ pc = "portfolio"
    /\ today # None
    /\ bonds' = Portfolio(today)
    /\ pc' = "loop"
    /\ UNCHANGED <<covVars, eigVars, shockVars, curveVars, today, flows,
                   pv_out, results, pv_df>>

\* 5.5: one iteration of the scenario loop; an exception of pv ends the cell
ScenarioIteration ==
    /\ pc = "loop"
    /\ Len(results) < Len(Scenarios)
    /\ LET name == Scenarios[Len(results) + 1]
           pvs  == [i \in 1..Len(bonds) |-> Pv(bonds[i], CurveOf(name), today)]
       IN  IF \E i \in 1..Len(bonds) : ~pvs[i].ok
           THEN pc' = "error" /\ results' = results
           ELSE /\ results' = Append(results,
                      [Scenario  |-> name,
                       pvs       |-> [i \in 1..Len(bonds) |-> pvs[i].val],
                       Portfolio |-> SumSeq([i \in 1..Len(bonds) |-> pvs[i].val])])
                /\ pc' = "loop"
    /\ UNCHANGED <<covVars, eigVars, shockVars, curveVars, today, bonds, flows,
                   pv_out, pv_df>>

\* pd.DataFrame(results, columns=cols).round(2): a value in hundredths
Round2(x) == RoundDiv(x, 4)

\* the rounded table
MakeTable ==
    /\ pc = "loop"
    /\ Len(results) = Len(Scenarios)
    /\ pv_df' = [r \in 1..Len(results) |->
                   [Scenario  |-> results[r].Scenario,
                    pvs       |-> [i \in 1..Len(results[r].pvs) |->
                                      Round2(results[r].pvs[i])],
                    Portfolio |-> Round2(results[r].Portfolio)]]
    /\ pc' = "done"
    /\ UNCHANGED <<covVars, eigVars, shockVars, curveVars, today, bonds, flows,
                   pv_out, results>>

NextScenario == BuildCurves \/ DefinePortfolio \/ ScenarioIteration \/ MakeTable

SpecScenario == InitScenario /\ [][NextScenario]_vars

\* C3: with the shock values of the notebook's table, the Up portfolio PV is
\* strictly less than the Base portfolio PV and the Down portfolio PV strictly
\* greater.
C3_UpBelowBaseBelowDown ==
    (pc = "done" /\ shocks_ewma = ShockTable)
        => /\ results[2].Portfolio < results[1].Portfolio
           /\ results[3].Portfolio > results[1].Portfolio

EOne == 10 * 100

\* the last index of the maximum instead of the first
ArgMaxLast(v) ==
    CHOOSE i \in 1..Len(v) :
        /\ \A j \in 1..Len(v) : v[j] <= v[i]
        /\ \A j \in (i + 1)..Len(v) : v[j] < v[i]

\* np.argmax: the first index of the maximum
ArgMax(v) ==
    CHOOSE i \in 1..Len(v) :
        /\ \A j \in 1..Len(v) : v[j] <= v[i]
        /\ \A j \in 1..(i - 1) : v[j] < v[i]

\* vecs[:, i]
Column(m, i) == [r \in 1..Len(m) |-> m[r][i]]

\* stats.chi2.ppf(0.995, df=n), n = 1..7
Chi2Ppf995(n) == <<788, 1060, 1284, 1486, 1675, 1855, 2028>>[n]

\* np.sqrt(c * lam_max)
ShockMag(cq, lmax) == ISqrt(cq * lmax)

\* shock_mag * e_max, elementwise
DeltaUp(mag, e) == [i \in 1..Len(e) |-> RoundDiv(10 * mag * e[i], EOne)]

\* the sign of the down shock left out
DeltaDownUnsigned(mag, e) == DeltaUp(mag, e)

\* -shock_mag * e_max, elementwise
DeltaDown(mag, e) == DeltaUp(-mag, e)

\* six decimals by truncation instead of rounding
RoundColumnFloor(col) == [i \in 1..Len(col) |-> 10 * (col[i] \div 10)]

\* a column of the shock table after DataFrame.round(6)
RoundColumn(col) == [i \in 1..Len(col) |-> Round6(col[i])]

\* the ascending eigenvalue lists np.linalg.eigh is taken to return
EigenvalueLists ==
    { <<0, 0, 0, 0, 0, 0, 0>>,
      <<0, 1, 2, 3, 5, 8, 13871>>,
      <<-1, 0, 0, 2, 7, 9000, 9000>>,
      <<3, 3, 3, 3, 3, 3, 3>>,
      <<0, 0, 1, 1, 40, 977, 4211>> }

\* the direction of the notebook's table, of unit length
TableDirection == <<-50, -40, -56, -460, -521, -519, -490>>

\* the eigenvector matrices np.linalg.eigh is taken to return, one column per
\* eigenvalue
EigenvectorMatrices ==
    { [i \in 1..NTenors |-> [j \in 1..NTenors |->
          IF j = NTenors THEN TableDirection[i] ELSE ((i * j * 37) % 201) - 100]],
      [i \in 1..NTenors |-> [j \in 1..NTenors |->
          IF j = NTenors THEN -TableDirection[i] ELSE ((i * j * 53) % 201) - 100]],
      [i \in 1..NTenors |-> [j \in 1..NTenors |->
          IF j = NTenors - 1 THEN TableDirection[i]
          ELSE 100 - ((i * j * 29) % 201)]] }

InitShock ==
    /\ pc = "eigh_done"
    /\ vals \in EigenvalueLists
    /\ vecs \in EigenvectorMatrices
    /\ base_rates \in RateVectors
    /\ zc_base = BaseCurve(base_rates)
    /\ idx = None /\ lam_max = None /\ e_max = None
    /\ shock_mag = None /\ delta_up = None /\ delta_down = None
    /\ shocks_ewma = None
    /\ zc_up = None /\ zc_down = None
    /\ today = None /\ bonds = None /\ flows = None /\ pv_out = None
    /\ results = <<>> /\ pv_df = None
    /\ lam = None /\ rets = None /\ weights = None /\ H_ewma = None

\* 2) idx, λ_max, e_max
SelectDominant ==
    /\ pc = "eigh_done"
    /\ idx' = ArgMax(vals)
    /\ lam_max' = vals[idx']
    /\ e_max' = Column(vecs, idx')
    /\ pc' = "selected"
    /\ UNCHANGED <<covVars, vals, vecs, shockVars, curveVars, bondVars>>

\* 3), 4) the quantile, the magnitude and the two shock vectors
ComputeShocks ==
    /\ pc = "selected"
    /\ shock_mag' = ShockMag(Chi2Ppf995(Len(vals)), lam_max)
    /\ delta_up' = DeltaUp(shock_mag', e_max)
    /\ delta_down' = DeltaDown(shock_mag', e_max)
    /\ pc' = "shocks"
    /\ UNCHANGED <<covVars, eigVars, shocks_ewma, curveVars, bondVars>>

\* shocks_ewma = pd.DataFrame({...}).round(6)
PackageShocks ==
    /\ pc = "shocks"
    /\ shocks_ewma' = [ewma_up   |-> RoundColumn(delta_up),
                       ewma_down |-> RoundColumn(delta_down)]
    /\ pc' = "curves"
    /\ UNCHANGED <<covVars, eigVars, shock_mag, delta_up, delta_down,
                   curveVars, bondVars>>

NextShock == SelectDominant \/ ComputeShocks \/ PackageShocks \/ BuildCurves

SpecShock == InitShock /\ [][NextShock]_vars

\* C8: λ_max is >= every eigenvalue, e_max is the eigenvector column at the
\* index of λ_max, and that index is the first one holding the maximum.
C8_DominantPairSelected ==
    pc \in {"selected", "shocks", "curves", "portfolio"}
        => /\ \A j \in 1..Len(vals) : lam_max >= vals[j]
           /\ lam_max = vals[idx]
           /\ \A j \in 1..(idx - 1) : vals[j] < lam_max
           /\ \A r \in 1..Len(vecs) : e_max[r] = vecs[r][idx]

\* C8 witness: the maximum is tied, the first of the tied indices was taken
\* and e_max is the column there.
C8_Witness ==
    /\ pc = "selected"
    /\ \E j \in 1..Len(vals) : j # idx /\ vals[j] = lam_max
    /\ \E j \in 1..Len(vals) : vals[j] < lam_max
    /\ idx < Len(vals)
    /\ e_max = Column(vecs, idx)

\* C4: delta_down[i] = -delta_up[i] at every tenor, and the same negation
\* holds between the ewma_down and ewma_up columns after rounding to 6 decimals.
C4_DownIsNegatedUp ==
    /\ pc \in {"shocks", "curves", "portfolio"}
          => \A i \in 1..Len(delta_up) : delta_down[i] = -delta_up[i]
    /\ pc \in {"curves", "portfolio"}
          => \A i \in 1..Len(delta_up) :
                 shocks_ewma.ewma_down[i] = -shocks_ewma.ewma_up[i]

\* C4 witness: a delta that is a tie of the rounding to 6 decimals, rounded,
\* with the Down column its negation; components of both signs.
C4_Witness ==
    /\ pc = "curves"
    /\ \E i \in 1..Len(delta_up) :
          /\ delta_up[i] > 0
          /\ delta_up[i] % 10 = 5
          /\ shocks_ewma.ewma_up[i] # delta_up[i]
          /\ shocks_ewma.ewma_down[i] = -shocks_ewma.ewma_up[i]
    /\ \E i \in 1..Len(delta_up) : delta_up[i] < 0

\* C10 as stated: the Up (Down) curve's rate is the base rate plus delta_up
\* (delta_down) itself, nothing done to the shock in between.
C10_CurveIsBasePlusDelta ==
    pc = "portfolio"
        => \A i \in 1..NTenors :
              /\ zc_up.rates[i] = base_rates[i] + delta_up[i]
              /\ zc_down.rates[i] = base_rates[i] + delta_down[i]

\* C10 amended: the Up (Down) curve's rate is the base rate plus delta_up
\* (delta_down) rounded to 6 decimals: the shift is a whole number of 1e-6 and
\* is within half of 1e-6 of the delta, which is shock_mag * e_max rounded once.
C10_CurveIsBasePlusRoundedDelta ==
    pc = "portfolio"
        => \A i \in 1..NTenors :
              /\ (zc_up.rates[i] - base_rates[i]) % 10 = 0
              /\ 2 * Abs(zc_up.rates[i] - base_rates[i] - delta_up[i]) <= 10
              /\ (zc_down.rates[i] - base_rates[i]) % 10 = 0
              /\ 2 * Abs(zc_down.rates[i] - base_rates[i] - delta_down[i]) <= 10
              /\ 2 * Abs(EOne * delta_up[i] - 10 * shock_mag * e_max[i]) <= EOne
              /\ 2 * Abs(EOne * delta_down[i] + 10 * shock_mag * e_max[i]) <= EOne

\* C10 witness: a delta that the rounding changed, and the Up curve built from
\* the rounded value.
C10_Witness ==
    /\ pc = "portfolio"
    /\ shock_mag > 0
    /\ \E i \in 1..NTenors :
          /\ delta_up[i] % 10 # 0
          /\ zc_up.rates[i] # base_rates[i] + delta_up[i]
          /\ zc_up.rates[i] = base_rates[i] + shocks_ewma.ewma_up[i]

(***************************************************************************)
(* The EWMA covariance (values in units of 1/One)                          *)
(***************************************************************************)
FracBits == 4

One == IPow(2, FracBits)

MaxT == 3

\* a product of two values, rounded once
FMul(a, b) == RoundDiv(a * b, One)

\* a quotient of two values, rounded once (b > 0)
FDiv(a, b) == RoundDiv(a * One, b)

\* x ** k: the power, rounded once
FPow(x, k) == IF k = 0 THEN One ELSE RoundDiv(IPow(x, k), IPow(One, k - 1))

\* (1-λ) * λ ** np.arange(T-1, -1, -1): row t of T (t = 1 the oldest) gets the
\* exponent T - t
RawWeights(l, T) == [t \in 1..T |-> FMul(One - l, FPow(l, T - t))]

\* the normalisation left out
NotNormalized(w) == w

\* weights /= weights.sum()
Normalized(w) == [t \in 1..Len(w) |-> FDiv(w[t], SumSeq(w))]

\* the weights broadcast along the columns instead of the rows (runs when T = N)
CovarianceByColumn(r, w, n) ==
    [i \in 1..n |-> [j \in 1..n |->
        SumSeq([t \in 1..Len(r) |->
                  FMul(FMul(r[t][i], w[Min(i, Len(w))]), r[t][j])])]]

\* (rets * weights[:, None]).T @ rets: entry (i, j) sums, over the rows, the
\* weighted value of column i times the value of column j
Covariance(r, w, n) ==
    [i \in 1..n |-> [j \in 1..n |->
        SumSeq([t \in 1..Len(r) |-> FMul(FMul(r[t][i], w[t]), r[t][j])])]]

\* the decays tried, 0 < λ < 1; One - 1 stands for the notebook's 0.94
Decays == {1, One \div 2, One - 1}

\* the rows of yield differences tried, one value per column
Rows == { <<3, 5, -7>>, <<-3, 5, 2>>, <<0, 0, 0>>, <<One, One, -One>> }

\* the columns of df_diff in the covariance cell
CovTenors == <<"3M", "1Y", "10Y">>

NCols == Len(CovTenors)

RECURSIVE Tables(_)
Tables(T) ==
    IF T = 0 THEN {<<>>}
    ELSE {Append(m, r) : m \in Tables(T - 1), r \in Rows}

InitCov ==
    /\ pc = "cov"
    /\ lam \in Decays
    /\ \E T \in 0..MaxT : rets \in Tables(T)
    /\ weights = None /\ H_ewma = None
    /\ vals = None /\ vecs = None /\ idx = None /\ lam_max = None /\ e_max = None
    /\ shock_mag = None /\ delta_up = None /\ delta_down = None
    /\ shocks_ewma = None
    /\ base_rates = None /\ zc_base = None /\ zc_up = None /\ zc_down = None
    /\ today = None /\ bonds = None /\ flows = None /\ pv_out = None
    /\ results = <<>> /\ pv_df = None

\* weights = (1-λ) * λ ** np.arange(T-1, -1, -1)
ComputeWeights ==
    /\ pc = "cov"
    /\ weights' = RawWeights(lam, Len(rets))
    /\ pc' = "raw_weights"
    /\ UNCHANGED <<lam, rets, H_ewma, eigVars, shockVars, curveVars, bondVars>>

\* weights /= weights.sum()
NormalizeWeights ==
    /\ pc = "raw_weights"
    /\ weights' = Normalized(weights)
    /\ pc' = "weights"
    /\ UNCHANGED <<lam, rets, H_ewma, eigVars, shockVars, curveVars, bondVars>>

\* H_ewma = (rets * weights[:, None]).T @ rets
ComputeCovariance ==
    /\ pc = "weights"
    /\ H_ewma' = Covariance(rets, weights, NCols)
    /\ pc' = "covariance"
    /\ UNCHANGED <<lam, rets, weights, eigVars, shockVars, curveVars, bondVars>>

NextCov == ComputeWeights \/ NormalizeWeights \/ ComputeCovariance

SpecCov == InitCov /\ [][NextCov]_vars

\* C5 as stated: every weight is strictly positive, the weights sum to 1
\* (within the rounding of the T quotients) and weights[t] <= weights[t+1].
C5_WeightsPositiveSumOneMonotone ==
    pc \in {"weights", "covariance"}
        => /\ \A t \in 1..Len(weights) : weights[t] > 0
           /\ Len(weights) > 0 => 2 * Abs(SumSeq(weights) - One) <= Len(weights)
           /\ \A t \in 1..(Len(weights) - 1) : weights[t] <= weights[t + 1]

\* C5 amended: every weight is non-negative and the most recent one strictly
\* positive (an older weight is exactly 0 once its power of λ rounds to 0), the
\* weights sum to 1 within the rounding of the T quotients, and
\* weights[t] <= weights[t+1].
C5_WeightsNonNegativeSumOneMonotone ==
    pc \in {"weights", "covariance"}
        => /\ \A t \in 1..Len(weights) : weights[t] >= 0
           /\ Len(weights) > 0 => weights[Len(weights)] > 0
           /\ Len(weights) > 0 => 2 * Abs(SumSeq(weights) - One) <= Len(weights)
           /\ \A t \in 1..(Len(weights) - 1) : weights[t] <= weights[t + 1]

\* C5 witness: three or more rows, the oldest weight 0, the two most recent
\* positive and increasing.
C5_Witness ==
    /\ pc = "weights"
    /\ Len(weights) >= 3
    /\ weights[1] = 0
    /\ weights[Len(weights)] > 0
    /\ weights[Len(weights) - 1] > 0
    /\ weights[Len(weights) - 1] < weights[Len(weights)]

\* C7 as stated: H[i][j] = H[j][i] for all tenor indices i, j.
C7_CovarianceSymmetric ==
    pc = "covariance"
        => \A i, j \in 1..NCols : H_ewma[i][j] = H_ewma[j][i]

\* C7 amended: H[i][j] and H[j][i] are equal up to the rounding of the
\* products they sum (two roundings per row and entry, for values of at most
\* 1 in magnitude); they need not be equal.
C7_CovarianceSymmetricUpToRounding ==
    pc = "covariance"
        => \A i, j \in 1..NCols :
              Abs(H_ewma[i][j] - H_ewma[j][i]) <= 2 * Len(rets)

\* C7 witness: an entry larger than the rounding bound that differs from its
\* mirror entry, within the bound.
C7_Witness ==
    /\ pc = "covariance"
    /\ \E i, j \in 1..NCols :
          /\ H_ewma[i][j] # H_ewma[j][i]
          /\ Abs(H_ewma[i][j]) > 2 * Len(rets)
          /\ Abs(H_ewma[i][j] - H_ewma[j][i]) <= 2 * Len(rets)

====
